---- MODULE Spec2Model ----
(***************************************************************************)
(* VChat: a browser chat client on a document store (Firestore).           *)
(*   scripts/chat.js  Chatroom  (room session: room, username, unsub)      *)
(*   scripts/ui.js    ChatUI    (rendering surface: the <ul> list)         *)
(*   scripts/app.js   controller (form handlers, room buttons, startup)    *)
(* Strings are sequences of one-character strings, so that trim(), the     *)
(* template literal and the two DOM text sinks (textContent, innerHTML)    *)
(* are computed rather than assumed.                                       *)
(***************************************************************************)
EXTENDS Integers, Sequences, FiniteSets, TLC

\* ------------------------------------------------------------------ bounds
MaxChats == 2      \* documents ever written to the collection
MaxSubs == 3       \* listeners opened by one page load
MaxTime == 1       \* clock ticks (seconds)
MaxTimers == 2     \* setTimeout callbacks pending at once
MaxLen == 3        \* length of the strings rendered in SpecRender
MaxUnsubCalls == 2 \* calls of one unsubscribe function

\* ----------------------------------------------------------------- strings
\* an optional value is a sequence of length at most 1: <<>> is absent
Absent == <<>>
Some(v) == <<v>>

Anonymous == <<"A","n","o","n","y","m","o","u","s">>
General == "general"
Rooms == {"general", "gaming", "music", "coding"}

Bob == <<"b","o","b">>
Blank == <<" ">>
Bold == <<"<","b",">","x">>
BoldPadded == <<" ","<","b",">","x"," ">>
Hello == <<"h","i">>

\* what the user types into the name field and into the message field
NameInputs == {BoldPadded, Blank}
MessageInputs == {BoldPadded, Blank}
\* what localStorage.username holds when the page loads (the scripts never write it)
StoredNames == {Absent, Some(Bob)}
\* the rooms the user and the other clients visit
VisitedRooms == {"general", "gaming"}

\* every string over the markup alphabet up to MaxLen characters
MarkupChars == {"<", ">", "b", "&"}
MarkupStrings == UNION {[1..n -> MarkupChars] : n \in 0..MaxLen}

IsSpace(c) == c = " "
IsLetter(c) == c \notin {" ", "<", ">", "&", "/", "="}

RECURSIVE TrimStart(_)
TrimStart(s) ==
    IF s # <<>> /\ IsSpace(s[1]) THEN TrimStart(Tail(s)) ELSE s

RECURSIVE TrimEnd(_)
TrimEnd(s) ==
    IF s # <<>> /\ IsSpace(s[Len(s)]) THEN TrimEnd(SubSeq(s, 1, Len(s) - 1)) ELSE s

\* String.prototype.trim
Trim(s) == TrimEnd(TrimStart(s))

\* ------------------------------------------------------------------- DOM
TextNode(s) == [tagName |-> "#text", className |-> "", data |-> s, childNodes |-> <<>>]
Element(tag, cls) == [tagName |-> tag, className |-> cls, data |-> <<>>, childNodes |-> <<>>]

\* node.textContent = s : the children are replaced by one text node (none for "")
SetTextContent(el, s) ==
    [el EXCEPT !.childNodes = IF s = <<>> THEN <<>> ELSE <<TextNode(s)>>]

\* index of the first c in s at or after i, 0 when there is none
RECURSIVE IndexFrom(_, _, _)
IndexFrom(s, c, i) ==
    IF i > Len(s) THEN 0 ELSE IF s[i] = c THEN i ELSE IndexFrom(s, c, i + 1)

\* a "<" that opens a start tag: followed by a letter
OpensTag(s, i) == i < Len(s) /\ s[i] = "<" /\ IsLetter(s[i + 1])

\* index of the first tag opening in s at or after i, Len(s)+1 when none
RECURSIVE TagFrom(_, _)
TagFrom(s, i) ==
    IF i > Len(s) THEN Len(s) + 1 ELSE IF OpensTag(s, i) THEN i ELSE TagFrom(s, i + 1)

\* the tag name: the letters after "<"
RECURSIVE NameRun(_)
NameRun(s) ==
    IF s # <<>> /\ IsLetter(s[1]) THEN <<s[1]>> \o NameRun(Tail(s)) ELSE <<>>

\* The HTML fragment parser on this alphabet: character data up to a start
\* tag becomes a text node; a start tag "<name ...>" becomes an element that
\* is never closed here, so the rest of the input is parsed as its children;
\* a start tag with no ">" is dropped at end of input.
RECURSIVE ParseHTML(_)
ParseHTML(s) ==
    IF s = <<>> THEN <<>>
    ELSE IF OpensTag(s, 1)
         THEN LET gt == IndexFrom(s, ">", 2)
              IN IF gt = 0 THEN <<>>
                 ELSE << [tagName |-> NameRun(Tail(s)), className |-> "", data |-> <<>>,
                          childNodes |-> ParseHTML(SubSeq(s, gt + 1, Len(s)))] >>
         ELSE LET t == TagFrom(s, 2)
              IN <<TextNode(SubSeq(s, 1, t - 1))>> \o ParseHTML(SubSeq(s, t, Len(s)))

\* node.innerHTML = s
SetInnerHTML(el, s) == [el EXCEPT !.childNodes = ParseHTML(s)]

RECURSIVE TextOfNodes(_)
RECURSIVE TextContent(_)
\* the textContent getter: the concatenated data of the text descendants
TextContent(n) == IF n.tagName = "#text" THEN n.data ELSE TextOfNodes(n.childNodes)
TextOfNodes(ns) == IF ns = <<>> THEN <<>> ELSE TextContent(ns[1]) \o TextOfNodes(Tail(ns))

\* ----------------------------------------------------------------- state
VARIABLES
    chatroom,      \* the Chatroom instance: [room, username, unsub]
    listeners,     \* the store's listeners opened by this page, in creation order
    teardown,      \* how the store client detaches a listener: "immediate" | "deferred"
    chats,         \* the 'chats' collection as this client sees it, in arrival order
    list,          \* ChatUI.list: the <li> children of the message list
    rendered,      \* history: for each <li>, the index in chats of the document it shows
    localStorage,  \* localStorage.username, optional
    msgInput,      \* value of the message field of the .new-chat form
    updateMsg,     \* child nodes of the .update-msg element
    timers,        \* pending setTimeout callbacks of the name handler
    console,       \* number of errors logged by the message handler
    now,           \* the client's clock
    lastChange     \* history: the name passed to the last updateName, optional

vars == <<chatroom, listeners, teardown, chats, list, rendered, localStorage,
          msgInput, updateMsg, timers, console, now, lastChange>>

\* ----------------------------------------------------------- the message store
\* A document is visible to this client's listeners while its write is pending
\* (latency compensation) or committed; a rejected write is taken back.
Visible(d) == d.status \in {"pending", "committed"}

\* onSnapshot(...) returns the unsubscribe function of a new listener
NewListener(room) == [room |-> room, state |-> "active", seen |-> {}, unsubCalls |-> 0]

\* calling the unsubscribe function of listener i; a detached listener keeps
\* no result set (seen: the documents of its result set)
Unsubscribe(ls, i) ==
    IF ls[i].state = "active" /\ teardown = "immediate"
    THEN [ls EXCEPT ![i].unsubCalls = @ + 1, ![i].state = "cancelled", ![i].seen = {}]
    ELSE IF ls[i].state = "active"
    THEN [ls EXCEPT ![i].unsubCalls = @ + 1, ![i].state = "cancelling"]
    ELSE [ls EXCEPT ![i].unsubCalls = @ + 1]

\* a listener that still delivers snapshots
Delivering(l) == l.state \in {"active", "cancelling"}

\* a listener on the whole collection, its where clause left out
AddedUnfiltered(l) ==
    {k \in 1..Len(chats) : Visible(chats[k]) /\ k \notin l.seen}

\* .where('room', '==', room): the documents of the query not yet reported as added
Added(l) ==
    {k \in 1..Len(chats) : Visible(chats[k]) /\ chats[k].room = l.room /\ k \notin l.seen}

\* the documents of the listener's result set whose write the store has refused
Removed(l) == {k \in l.seen : ~Visible(chats[k])}

\* .orderBy('created_at'): the documents of a set in ascending creation time
\* (equal times in arrival order)
RECURSIVE OrderBy(_)
OrderBy(S) ==
    IF S = {} THEN <<>>
    ELSE LET k == CHOOSE x \in S : \A y \in S :
                      \/ chats[x].created_at < chats[y].created_at
                      \/ (chats[x].created_at = chats[y].created_at /\ x <= y)
         IN <<k>> \o OrderBy(S \ {k})

RECURSIVE Changes(_, _)
Changes(type, ks) ==
    IF ks = <<>> THEN <<>> ELSE <<[type |-> type, doc |-> ks[1]]>> \o Changes(type, Tail(ks))

\* the whole result set reported as added in every snapshot (the handler
\* walking snapshot.docs instead of snapshot.docChanges())
DocsAsChanges(l) ==
    Changes("added", OrderBy({k \in 1..Len(chats) : Visible(chats[k]) /\ chats[k].room = l.room}))

\* snapshot.docChanges(): the removed documents first, then the added ones, each
\* group in query order (a pending write that is acknowledged changes no field,
\* so it gives no 'modified' change)
DocChanges(l) == Changes("removed", OrderBy(Removed(l))) \o Changes("added", OrderBy(Added(l)))

\* ------------------------------------------------------------ scripts/chat.js
\* constructor(room, username): this.unsub is left undefined (0)
NewChatroom(room, username) == [room |-> room, username |-> username, unsub |-> 0]

\* addChat with the room of the constructor call written in
ChatInGeneral(cr, message) ==
    [message |-> message, username |-> cr.username, room |-> General, created_at |-> now]

\* addChat(message): the chat object handed to this.chats.add
Chat(cr, message) ==
    [message |-> message, username |-> cr.username, room |-> cr.room, created_at |-> now]

\* getChats querying the room of the constructor call instead of this.room
getChatsOfGeneral(cr, ls) ==
    [chatroom |-> [cr EXCEPT !.unsub = Len(ls) + 1],
     listeners |-> Append(ls, NewListener(General))]

\* getChats(callback): opens a listener on the current room and keeps its
\* unsubscribe function in this.unsub
getChats(cr, ls) ==
    [chatroom |-> [cr EXCEPT !.unsub = Len(ls) + 1],
     listeners |-> Append(ls, NewListener(cr.room))]

\* the forEach of getChats without its test of change.type
RECURSIVE CallbacksUntested(_)
CallbacksUntested(changes) ==
    IF changes = <<>> THEN <<>> ELSE <<changes[1].doc>> \o CallbacksUntested(Tail(changes))

\* snapshot.docChanges().forEach(...): the documents the callback is called
\* with, in order: those of the changes of type 'added'
RECURSIVE Callbacks(_)
Callbacks(changes) ==
    IF changes = <<>> THEN <<>>
    ELSE (IF changes[1].type = "added" THEN <<changes[1].doc>> ELSE <<>>)
         \o Callbacks(Tail(changes))

\* updateName assigning to its parameter instead of this.username
updateNameLost(cr, username) == cr

\* updateName replacing the session by a new Chatroom(this.room, username)
updateNameRebuilds(cr, username) == NewChatroom(cr.room, username)

\* updateName(username)
updateName(cr, username) == [cr EXCEPT !.username = username]

\* updateRoom that forgets to call this.unsub
updateRoomNoUnsub(cr, ls, room) ==
    [chatroom |-> [cr EXCEPT !.room = room], listeners |-> ls]

\* updateRoom that opens the listener of the new room itself
updateRoomResubscribes(cr, ls, room) ==
    getChats([cr EXCEPT !.room = room],
             IF cr.unsub # 0 THEN Unsubscribe(ls, cr.unsub) ELSE ls)

\* updateRoom(room)
updateRoom(cr, ls, room) ==
    [chatroom |-> [cr EXCEPT !.room = room],
     listeners |-> IF cr.unsub # 0 THEN Unsubscribe(ls, cr.unsub) ELSE ls]

\* -------------------------------------------------------------- scripts/ui.js
\* dateFns.distanceInWordsToNow(date, {addSuffix: true}) for dates a few seconds
\* away from now: a date in the future (another client's clock runs ahead)
\* reads "in ...", any other "... ago"
DistanceInWordsToNow(created_at) ==
    IF created_at > now THEN "in less than a minute" ELSE "less than a minute ago"

\* the click handler without its chatUI.clear(): the list is left as it is
clearNothing(lst) == lst

\* clear that removes the first entry only
clearFirst(lst) == IF lst = <<>> THEN <<>> ELSE Tail(lst)

\* clear(): this.list.innerHTML = ''
clear(lst) == ParseHTML(<<>>)

\* render building the entry from a template string assigned to innerHTML
renderTemplate(data) ==
    LET when == DistanceInWordsToNow(data.created_at)
        usernameSpan == SetInnerHTML(Element("span", "username btn"), data.username)
        messageSpan == SetInnerHTML(Element("span", "message"), data.message)
        timeSpan == SetInnerHTML(Element("span", "time"), <<when>>)
    IN [Element("li", "list-group-item chat")
            EXCEPT !.childNodes = <<usernameSpan, messageSpan, timeSpan>>]

\* render(data): the <li> appended to the list
render(data) ==
    LET when == DistanceInWordsToNow(data.created_at)
        usernameSpan == SetTextContent(Element("span", "username btn"), data.username)
        messageSpan == SetTextContent(Element("span", "message"), data.message)
        timeSpan == SetTextContent(Element("span", "time"), <<when>>)
    IN [Element("li", "list-group-item chat")
            EXCEPT !.childNodes = <<usernameSpan, messageSpan, timeSpan>>]

\* inserting the entry before the first child
prependChild(lst, li) == <<li>> \o lst

\* this.list.appendChild(li)
appendChild(lst, li) == Append(lst, li)

\* the callback chat => chatUI.render(chat) called with each document of ks in turn
RECURSIVE RenderAll(_, _)
RenderAll(lst, ks) ==
    IF ks = <<>> THEN lst
    ELSE RenderAll(appendChild(lst, render(chats[ks[1]])), Tail(ks))

\* ------------------------------------------------------------- scripts/app.js
\* startup: lines 37-45
Username == IF localStorage # Absent /\ localStorage[1] # <<>> THEN localStorage[1] ELSE Anonymous

\* startup with the room and name of the first version of the script
StartupFixed == getChats(NewChatroom("gaming", <<"s","h","a","u","n">>), <<>>)

Startup == getChats(NewChatroom(General, Username), <<>>)

\* the page after its scripts have run, over a collection holding `stored`
Loaded(mode, stored) ==
    /\ localStorage \in StoredNames
    /\ teardown = mode
    /\ chats = stored
    /\ chatroom = Startup.chatroom
    /\ listeners = Startup.listeners
    /\ list = <<>>
    /\ rendered = <<>>
    /\ msgInput = <<>>
    /\ updateMsg = <<>>
    /\ timers = 0
    /\ console = 0
    /\ now = 0
    /\ lastChange = Absent

Init == Loaded("immediate", <<>>)

\* the user types into the message field
TypeMessage ==
    /\ \E t \in MessageInputs : msgInput' = t
    /\ UNCHANGED <<chatroom, listeners, teardown, chats, list, rendered, localStorage,
                   updateMsg, timers, console, now, lastChange>>

\* addChat writing to one fixed document (this.chats.doc(...).set(chat))
\* instead of adding a new one
MessageSubmitOverwrites ==
    /\ Len(chats) < MaxChats
    /\ LET message == Trim(msgInput)
           chat == Chat(chatroom, message) @@ [origin |-> "local", status |-> "pending"]
       IN chats' = IF chats = <<>> THEN <<chat>> ELSE [chats EXCEPT ![1] = chat]
    /\ UNCHANGED <<chatroom, listeners, teardown, list, rendered, localStorage, msgInput,
                   updateMsg, timers, console, now, lastChange>>

\* newChatForm 'submit': lines 7-15, up to the await inside addChat
MessageSubmit ==
    /\ Len(chats) < MaxChats
    /\ LET message == Trim(msgInput)
           chat == Chat(chatroom, message)
       IN chats' = Append(chats, chat @@ [origin |-> "local", status |-> "pending"])
    /\ UNCHANGED <<chatroom, listeners, teardown, list, rendered, localStorage, msgInput,
                   updateMsg, timers, console, now, lastChange>>

\* the oldest write of this page still in flight (writes are acknowledged in order)
Pending == {k \in 1..Len(chats) : chats[k].origin = "local" /\ chats[k].status = "pending"}
OldestPending == CHOOSE k \in Pending : \A j \in Pending : k <= j

\* addChat building the chat object after an await, from the session as it is
\* when the write goes out
WriteSucceedsLateRead ==
    /\ Pending # {}
    /\ chats' = [chats EXCEPT ![OldestPending] =
                    [@ EXCEPT !.username = chatroom.username, !.room = chatroom.room,
                              !.status = "committed"]]
    /\ msgInput' = <<>>
    /\ UNCHANGED <<chatroom, listeners, teardown, list, rendered, localStorage,
                   updateMsg, timers, console, now, lastChange>>

\* the write is acknowledged: .then(() => newChatForm.reset())
WriteSucceeds ==
    /\ Pending # {}
    /\ chats' = [chats EXCEPT ![OldestPending].status = "committed"]
    /\ msgInput' = <<>>
    /\ UNCHANGED <<chatroom, listeners, teardown, list, rendered, localStorage,
                   updateMsg, timers, console, now, lastChange>>

\* the refused write handled with .finally(() => newChatForm.reset())
WriteFailsResets ==
    /\ Pending # {}
    /\ chats' = [chats EXCEPT ![OldestPending].status = "rejected"]
    /\ console' = console + 1
    /\ msgInput' = <<>>
    /\ UNCHANGED <<chatroom, listeners, teardown, list, rendered, localStorage,
                   updateMsg, timers, now, lastChange>>

\* the write is refused: .catch((er) => console.log(er))
WriteFails ==
    /\ Pending # {}
    /\ chats' = [chats EXCEPT ![OldestPending].status = "rejected"]
    /\ console' = console + 1
    /\ UNCHANGED <<chatroom, listeners, teardown, list, rendered, localStorage, msgInput,
                   updateMsg, timers, now, lastChange>>

NamePrefix == <<"N","a","m","e"," ","h","a","s"," ","b","e","e","n"," ",
                "u","p","d","a","t","e","d"," ","t","o"," ">>

\* newNameForm 'submit': lines 17-26 (the name field is read, then reset)
\* the name handler without its setTimeout
NameSubmitNoTimer ==
    /\ timers < MaxTimers
    /\ \E value \in NameInputs :
         LET newName == Trim(value)
         IN /\ chatroom' = updateName(chatroom, newName)
            /\ updateMsg' = SetInnerHTML(Element("div", "update-msg"), NamePrefix \o newName).childNodes
            /\ lastChange' = Some(newName)
    /\ UNCHANGED <<listeners, teardown, chats, list, rendered, localStorage, msgInput,
                   console, now, timers>>

NameSubmit ==
    /\ timers < MaxTimers
    /\ \E value \in NameInputs :
         LET newName == Trim(value)
         IN /\ chatroom' = updateName(chatroom, newName)
            /\ updateMsg' = SetInnerHTML(Element("div", "update-msg"), NamePrefix \o newName).childNodes
            /\ lastChange' = Some(newName)
    /\ timers' = timers + 1
    /\ UNCHANGED <<listeners, teardown, chats, list, rendered, localStorage, msgInput,
                   console, now>>

\* the setTimeout callback: lines 23-25
TimerFires ==
    /\ timers > 0
    /\ timers' = timers - 1
    /\ updateMsg' = SetInnerHTML(Element("div", "update-msg"), <<>>).childNodes
    /\ UNCHANGED <<chatroom, listeners, teardown, chats, list, rendered, localStorage,
                   msgInput, console, now, lastChange>>

\* click targets inside .chat-rooms: the four room buttons and the container itself
Targets == [tagName : {"BUTTON"}, id : VisitedRooms] \cup {[tagName |-> "DIV", id |-> "none"]}

\* the three calls with getChats before updateRoom
ClickButtonSubscribeFirst(cr, ls, id) ==
    LET a == getChats(cr, ls)
    IN updateRoom(a.chatroom, a.listeners, id)

\* the text of a room button: "#General" for the button with id "general"
ButtonText(id) ==
    CASE id = "general" -> "#General"
      [] id = "gaming" -> "#Gaming"
      [] id = "music" -> "#Music"
      [] id = "coding" -> "#Coding"
      [] OTHER -> ""

\* the handler passing the button's text instead of its id attribute
ClickButtonByText(cr, ls, id) ==
    LET a == updateRoom(cr, ls, ButtonText(id))
    IN getChats(a.chatroom, a.listeners)

\* what the three calls of lines 31-33 leave behind
ClickButton(cr, ls, id) ==
    LET a == updateRoom(cr, ls, id)
    IN getChats(a.chatroom, a.listeners)

\* the click handler without its test of e.target.tagName
RoomClickAnyTarget(target) ==
    /\ Len(listeners) < MaxSubs
    /\ list' = clear(list)
    /\ rendered' = SubSeq(rendered, Len(rendered) - Len(clear(list)) + 1, Len(rendered))
    /\ chatroom' = ClickButton(chatroom, listeners, target.id).chatroom
    /\ listeners' = ClickButton(chatroom, listeners, target.id).listeners
    /\ UNCHANGED <<teardown, chats, localStorage, msgInput, updateMsg, timers,
                   console, now, lastChange>>

\* rooms 'click': lines 28-35
RoomClick(target) ==
    IF target.tagName = "BUTTON"
    THEN /\ Len(listeners) < MaxSubs
         /\ list' = clear(list)
         /\ rendered' = SubSeq(rendered, Len(rendered) - Len(clear(list)) + 1, Len(rendered))
         /\ chatroom' = ClickButton(chatroom, listeners, target.id).chatroom
         /\ listeners' = ClickButton(chatroom, listeners, target.id).listeners
         /\ UNCHANGED <<teardown, chats, localStorage, msgInput, updateMsg, timers,
                        console, now, lastChange>>
    ELSE UNCHANGED vars

Click == \E target \in Targets : RoomClick(target)

\* the four room buttons of the page, and a click on any of them or on the
\* container
RoomButtons == [tagName : {"BUTTON"}, id : Rooms]
Container == [tagName |-> "DIV", id |-> "none"]
ClickAnyRoom == \E target \in RoomButtons \cup {Container} : RoomClick(target)

\* a snapshot reaches listener i: lines 22-28 of chat.js with the callback of app.js
Snapshot(i) ==
    /\ Delivering(listeners[i])
    /\ DocChanges(listeners[i]) # <<>>
    /\ LET ks == Callbacks(DocChanges(listeners[i]))
       IN /\ list' = RenderAll(list, ks)
          /\ rendered' = rendered \o ks
    /\ listeners' = [listeners EXCEPT
                        ![i].seen = (@ \ Removed(listeners[i])) \cup Added(listeners[i])]
    /\ UNCHANGED <<chatroom, teardown, chats, localStorage, msgInput, updateMsg, timers,
                   console, now, lastChange>>

Deliver == \E i \in 1..Len(listeners) : Snapshot(i)

\* another client's message arrives in the collection
RemoteAuthor == <<"z","o","e">>
RemotePost ==
    /\ Len(chats) < MaxChats
    /\ \E r \in VisitedRooms, t \in 0..MaxTime :
         chats' = Append(chats, [message |-> Hello, username |-> RemoteAuthor, room |-> r,
                                 created_at |-> t, origin |-> "remote", status |-> "committed"])
    /\ UNCHANGED <<chatroom, listeners, teardown, list, rendered, localStorage, msgInput,
                   updateMsg, timers, console, now, lastChange>>

Tick ==
    /\ now < MaxTime
    /\ now' = now + 1
    /\ UNCHANGED <<chatroom, listeners, teardown, chats, list, rendered, localStorage,
                   msgInput, updateMsg, timers, console, lastChange>>

Next ==
    \/ TypeMessage
    \/ MessageSubmit
    \/ WriteSucceeds
    \/ WriteFails
    \/ NameSubmit
    \/ TimerFires
    \/ Click
    \/ Deliver
    \/ RemotePost
    \/ Tick

\* everything at once: the user, the other clients, the store and the clock
Spec == Init /\ [][Next]_vars

\* The user's three events (room click, message submit, name submit) with
\* what they start (the write's acknowledgement, the timer) and the snapshots.
NextUser ==
    \/ Click
    \/ MessageSubmit
    \/ WriteSucceeds
    \/ NameSubmit
    \/ TimerFires
    \/ Deliver

SpecUser == Init /\ [][NextUser]_vars

\* the same, with every timer started by setTimeout firing in the end
SpecUserFair == Init /\ [][NextUser]_vars /\ WF_vars(TimerFires)

\* The message feed: room switches, writes of this client that the store
\* accepts or refuses, messages of other clients, and the snapshots.
NextFeed ==
    \/ Click
    \/ MessageSubmit
    \/ WriteSucceeds
    \/ WriteFails
    \/ RemotePost
    \/ Deliver

SpecFeed == Init /\ [][NextFeed]_vars

\* a user who switches rooms and posts while other clients post, every write
\* accepted, and the store delivering every snapshot it owes a listener
NextView ==
    \/ Click
    \/ MessageSubmit
    \/ WriteSucceeds
    \/ RemotePost
    \/ Deliver

SpecViewFair == Init /\ [][NextView]_vars /\ WF_vars(Deliver)

\* the guard of Deliver: some open listener is owed a snapshot
DeliverEnabled ==
    \E i \in 1..Len(listeners) : Delivering(listeners[i]) /\ DocChanges(listeners[i]) # <<>>

\* SpecViewFair with WF_vars(Deliver) written out by its definition,
\* ENABLED <<Deliver>>_vars being DeliverEnabled (every Deliver step changes
\* the listener's result set)
SpecViewLive ==
    Init /\ [][NextView]_vars /\ ([]<>(~DeliverEnabled) \/ []<><<Deliver>>_vars)

\* The message form: typing, submitting, the write settling, the snapshots,
\* with the clock running.
NextForm ==
    \/ TypeMessage
    \/ MessageSubmit
    \/ WriteSucceeds
    \/ WriteFails
    \/ Deliver
    \/ Tick

SpecForm == Init /\ [][NextForm]_vars

\* ---------------------------------------------------- deferred detachment
\* The store client finishes detaching a listener some time after its
\* unsubscribe function was called.
Detach ==
    /\ \E i \in 1..Len(listeners) :
         /\ listeners[i].state = "cancelling"
         /\ listeners' = [listeners EXCEPT ![i].state = "cancelled", ![i].seen = {}]
    /\ UNCHANGED <<chatroom, teardown, chats, list, rendered, localStorage, msgInput,
                   updateMsg, timers, console, now, lastChange>>

InitOverlap == Loaded("deferred", <<>>)

\* room switches, posts by this and other clients, deliveries
NextOverlap ==
    \/ Click
    \/ MessageSubmit
    \/ WriteSucceeds
    \/ RemotePost
    \/ Deliver
    \/ Detach

SpecOverlap == InitOverlap /\ [][NextOverlap]_vars

\* ------------------------------------------------- rendering arbitrary text
\* The page is loaded over a collection that already holds one message of the
\* general room whose body or author is an arbitrary markup string.
StoredChat(s, field) ==
    [message |-> IF field = "message" THEN s ELSE Hello,
     username |-> IF field = "username" THEN s ELSE RemoteAuthor,
     room |-> General, created_at |-> 0, origin |-> "remote", status |-> "committed"]

InitRender ==
    \E s \in MarkupStrings, field \in {"message", "username"} :
        Loaded("immediate", <<StoredChat(s, field)>>)

NextRender ==
    \/ Deliver
    \/ Click
    \/ Tick

SpecRender == InitRender /\ [][NextRender]_vars

\* ------------------------------------------------------------------------
\* a user who clicks through all four rooms while other clients post
NextRooms ==
    \/ ClickAnyRoom
    \/ RemotePost
    \/ Deliver

SpecRooms == Init /\ [][NextRooms]_vars

\* ------------------------------------------------------------------------
\* The Chatroom and ChatUI objects driven directly, one method call per step,
\* with chat => chatUI.render(chat) as the callback of getChats, over a
\* collection that holds one message of each visited room
StoredIn(room) == [StoredChat(Hello, "message") EXCEPT !.room = room]

InitSession ==
    /\ localStorage \in StoredNames
    /\ teardown = "immediate"
    /\ chats = <<StoredIn("general"), StoredIn("gaming")>>
    /\ chatroom = NewChatroom(General, Username)
    /\ listeners = <<>>
    /\ list = <<>>
    /\ rendered = <<>>
    /\ msgInput = <<>>
    /\ updateMsg = <<>>
    /\ timers = 0
    /\ console = 0
    /\ now = 0
    /\ lastChange = Absent

\* chatroom.getChats(chat => chatUI.render(chat))
CallGetChats ==
    /\ Len(listeners) < MaxSubs
    /\ chatroom' = getChats(chatroom, listeners).chatroom
    /\ listeners' = getChats(chatroom, listeners).listeners
    /\ UNCHANGED <<teardown, chats, list, rendered, localStorage, msgInput, updateMsg,
                   timers, console, now, lastChange>>

\* chatroom.updateRoom(room)
CallUpdateRoom(room) ==
    /\ chatroom.unsub # 0 => listeners[chatroom.unsub].unsubCalls < MaxUnsubCalls
    /\ chatroom' = updateRoom(chatroom, listeners, room).chatroom
    /\ listeners' = updateRoom(chatroom, listeners, room).listeners
    /\ UNCHANGED <<teardown, chats, list, rendered, localStorage, msgInput, updateMsg,
                   timers, console, now, lastChange>>

UpdateRoomCall == \E room \in VisitedRooms : CallUpdateRoom(room)

NextSession ==
    \/ CallGetChats
    \/ UpdateRoomCall
    \/ Deliver

SpecSession == InitSession /\ [][NextSession]_vars

\* ============================================================= properties
Active == {i \in 1..Len(listeners) : listeners[i].state = "active"}
Shown == {rendered[j] : j \in 1..Len(rendered)}
Local == {k \in 1..Len(chats) : chats[k].origin = "local"}
Posted == Len(chats') = Len(chats) + 1 /\ chats'[Len(chats')].origin = "local"
Contains(s, c) == \E i \in 1..Len(s) : s[i] = c

\* C1: through the controller at most one listener of the room session is
\* active, and every listener opened before the most recent one has had its
\* unsubscribe function called.
C1_OneLiveSubscription ==
    /\ Cardinality(Active) <= 1
    /\ \A i \in 1..Len(listeners) :
         i < Len(listeners) => listeners[i].state # "active" /\ listeners[i].unsubCalls > 0

C1_Witness ==
    /\ Len(listeners) = 3
    /\ Active = {3}
    /\ listeners[3].seen # {}

\* C2: after a switch from room A to room B, no snapshot puts a message of
\* room A (whoever posted it, whenever) into the rendered list while B is
\* viewed: every entry a step appends is a message of the room then viewed.
C2_SwitchIsolatesRooms ==
    [][\A j \in 1..Len(rendered') :
          j > Len(rendered) => chats'[rendered'[j]].room = chatroom'.room]_vars

\* one switch to gaming, then a post in gaming, then a message posted to
\* general: the first is shown, the second is not, nothing is left to deliver
C2_Witness ==
    /\ Len(listeners) = 2
    /\ chatroom.room = "gaming"
    /\ Added(listeners[2]) = {}
    /\ \E k1, k2 \in 1..Len(chats) :
         /\ k1 < k2
         /\ chats[k1].origin = "local" /\ chats[k1].room = "gaming" /\ k1 \in Shown
         /\ chats[k2].room = "general" /\ Visible(chats[k2]) /\ k2 \notin Shown

TextOnly(span) ==
    /\ span.tagName = "span"
    /\ \A i \in 1..Len(span.childNodes) : span.childNodes[i].tagName = "#text"

\* C3: whatever markup characters the author or the body of a message holds,
\* its rendered entry is a <li> of exactly three spans whose children are text
\* nodes only, and the text of the author and body spans is the string itself.
C3_RenderIsTextOnly ==
    \A j \in 1..Len(list) :
        LET li == list[j]
            data == chats[rendered[j]]
        IN /\ li.tagName = "li"
           /\ Len(li.childNodes) = 3
           /\ \A i \in 1..3 : TextOnly(li.childNodes[i])
           /\ TextContent(li.childNodes[1]) = data.username
           /\ TextContent(li.childNodes[2]) = data.message

C3_Witness ==
    \E j \in 1..Len(list) :
        /\ Contains(chats[rendered[j]].message, "<")
        /\ Contains(chats[rendered[j]].message, ">")
        /\ Len(chats[rendered[j]].message) = MaxLen

\* C4: a submit of an empty or whitespace-only message field writes nothing:
\* no document written by this client has an empty message.
C4_NoEmptyWrite ==
    \A k \in Local : chats[k].message # <<>>

\* C5: after updateName(n) localStorage.username holds n.
C5_NamePersisted ==
    lastChange # Absent => localStorage = lastChange

\* C6: the document handed to the store by addChat carries the username and
\* the room the session holds when the submit is handled.
C6_PostCarriesSession ==
    [][Posted => /\ chats'[Len(chats')].username = chatroom.username
                 /\ chats'[Len(chats')].room = chatroom.room]_vars

\* posted after a switch to gaming under a changed name
C6_Witness ==
    \E k \in Local :
        /\ chats[k].room = "gaming"
        /\ chats[k].username = Bold
        /\ chatroom.room = "gaming"

\* C7: a message posted after username changes carries the name of the last
\* change, and the documents posted before a change keep their author.
C7_LastNameWins ==
    [][/\ (Posted /\ lastChange # Absent) => chats'[Len(chats')].username = lastChange[1]
       /\ \A k \in 1..Len(chats) : k <= Len(chats') /\ chats'[k].username = chats[k].username]_vars

\* posted as <b>x, renamed, posted again under the new name
C7_Witness ==
    /\ Len(chats) = 2
    /\ Local = {1, 2}
    /\ chats[1].username = Bold
    /\ chats[2].username = <<>>
    /\ lastChange = Some(<<>>)

\* C8: a click on a room button leaves the rendered list empty, the session in
\* the clicked room, and exactly one listener active: the newest one, on the
\* clicked room, with its unsubscribe function kept in this.unsub.
C8_ClickSwitchesRoom ==
    [][\A target \in Targets :
          (target.tagName = "BUTTON" /\ RoomClick(target)) =>
              /\ list' = <<>>
              /\ chatroom'.room = target.id
              /\ chatroom'.unsub = Len(listeners')
              /\ Len(listeners') = Len(listeners) + 1
              /\ {i \in 1..Len(listeners') : listeners'[i].state = "active"} = {Len(listeners')}
              /\ listeners'[Len(listeners')].room = target.id]_vars

\* right after a click on gaming, with messages in the collection
C8_Witness ==
    /\ Len(listeners) = 2
    /\ chatroom.room = "gaming"
    /\ list = <<>>
    /\ listeners[1].state = "cancelled"
    /\ listeners[2].seen = {}
    /\ Len(chats) > 0

C10_Startup ==
    (Len(listeners) = 1 /\ lastChange = Absent) =>
        /\ chatroom.room = "general"
        /\ chatroom.username = (IF localStorage = Absent THEN Anonymous ELSE localStorage[1])
        /\ chatroom.unsub = 1
        /\ listeners[1].room = "general"
        /\ listeners[1].state = "active"

C10_Witness ==
    /\ Len(listeners) = 1
    /\ lastChange = Absent
    /\ localStorage = Some(Bob)
    /\ chatroom.username = Bob
    /\ listeners[1].seen # {}

\* C11: a name change whose trimmed value is empty is rejected: the session's
\* username is never empty, and no message posted by this client carries an
\* empty author.
C11_BlankNameRejected ==
    /\ chatroom.username # <<>>
    /\ \A k \in Local : chats[k].username # <<>>

\* a write of this page goes from in flight to the given outcome in this step
Settled(outcome) ==
    \E k \in Local : chats[k].status = "pending" /\ chats'[k].status = outcome

\* C12: the message input is emptied only by a step in which a write of this
\* page is acknowledged; a step in which a write is refused logs the error and
\* leaves the input as it was, and the submit step itself leaves it too.
C12_ResetOnlyOnSuccess ==
    [][/\ (msgInput' = <<>> /\ msgInput # <<>>) => Settled("committed")
       /\ Settled("committed") => msgInput' = <<>>
       /\ Settled("rejected") => msgInput' = msgInput /\ console' = console + 1
       /\ Posted => msgInput' = msgInput]_vars

\* one write acknowledged, then a second typed, submitted and refused: the
\* input still holds the text of the refused message
C12_Witness ==
    /\ Len(chats) = 2
    /\ chats[1].origin = "local" /\ chats[1].status = "committed"
    /\ chats[2].origin = "local" /\ chats[2].status = "rejected"
    /\ msgInput # <<>> /\ Trim(msgInput) = chats[2].message
    /\ console = 1

\* C13: a refused write changes nothing of the local session: when every write
\* issued so far has been refused (and nothing else was done), the room, the
\* username, the active subscription and the rendered list are those the page
\* had before the first write was issued.
C13_FailedWriteChangesNothing ==
    (chats # <<>> /\ \A k \in 1..Len(chats) : chats[k].status = "rejected")
        => /\ chatroom = Startup.chatroom
           /\ Active = {chatroom.unsub}
           /\ list = <<>>

\* the documents a step reports as added to a listener that stays open
NewlyAdded ==
    IF Len(listeners') # Len(listeners) THEN {}
    ELSE UNION {listeners'[i].seen \ listeners[i].seen : i \in 1..Len(listeners)}

\* the documents the callback is called with in a step, in call order
Called == SubSeq(rendered', Len(rendered) + 1, Len(rendered'))

\* C14: while a subscription is open, a step calls the callback once for each
\* document the store reports as added in that step, in the store's order
\* (ascending creation time), with no document it was already called for, and
\* for nothing else: a removed document, or a step that reports no added
\* document, calls it zero times.
C14_CallbackOncePerAdded ==
    [][/\ Len(Called) = Cardinality(NewlyAdded)
       /\ {Called[j] : j \in 1..Len(Called)} = NewlyAdded
       /\ \A j1, j2 \in 1..Len(Called) :
            j1 < j2 => chats[Called[j1]].created_at <= chats[Called[j2]].created_at
       /\ NewlyAdded \cap Shown = {}]_vars

\* document 1 was delivered while pending, then refused and reported removed;
\* document 2 was delivered after it: the callback ran once for each
C14_Witness ==
    /\ Len(listeners) = 1
    /\ Len(chats) = 2
    /\ chats[1].status = "rejected"
    /\ listeners[1].seen = {2}
    /\ rendered = <<1, 2>>

\* C15: updateRoom called while the session's listener is the one active
\* listener sets the room, cancels that listener and opens none; while no
\* listener is active no callback runs; the next getChats opens one listener,
\* on the room that was set.
C15_SwitchThenSubscribe ==
    [][/\ \A room \in VisitedRooms :
            (Active = {chatroom.unsub} /\ CallUpdateRoom(room))
                => /\ chatroom'.room = room
                   /\ chatroom'.unsub = chatroom.unsub
                   /\ Len(listeners') = Len(listeners)
                   /\ Active' = {}
       /\ Active = {} => rendered' = rendered /\ list' = list
       /\ (Active = {} /\ CallGetChats)
            => /\ chatroom'.room = chatroom.room
               /\ Active' = {chatroom'.unsub}
               /\ listeners'[chatroom'.unsub].room = chatroom.room]_vars

\* between updateRoom('gaming') and the next getChats: the only listener is
\* cancelled, a gaming message is stored, and nothing has been rendered
C15_Witness ==
    /\ Len(listeners) = 1
    /\ listeners[1].unsubCalls = 1
    /\ Active = {}
    /\ chatroom.room = "gaming"
    /\ \E k \in 1..Len(chats) : chats[k].room = "gaming"
    /\ list = <<>>

\* C16: a name change leaves the subscription alone: the step of the name form
\* changes neither the session's unsubscribe handle, nor any listener (its
\* room filter, its state, what it has delivered), nor the current room, nor
\* the rendered list.
C16_NameChangeKeepsSubscription ==
    [][NameSubmit => /\ chatroom'.unsub = chatroom.unsub
                     /\ chatroom'.room = chatroom.room
                     /\ listeners' = listeners
                     /\ list' = list
                     /\ rendered' = rendered]_vars

\* after a switch and a name change, a message posted under the new name was
\* delivered by the listener that was open before the change
C16_Witness ==
    /\ lastChange # Absent
    /\ Len(listeners) = 2
    /\ Active = {chatroom.unsub}
    /\ \E k \in Shown : chats[k].origin = "local" /\ <<chats[k].username>> = lastChange

\* C17: the rendered list only grows at its end between clears: a step that is
\* not a room switch keeps every entry where and as it was, and the entries it
\* adds come after them, one per callback call in call order; so the list reads
\* in delivery order, whatever the creation times.
C17_AppendOnly ==
    [][\/ Len(listeners') > Len(listeners) /\ list' = <<>>
       \/ /\ Len(listeners') = Len(listeners)
          /\ Len(list') = Len(list) + Len(Called)
          /\ SubSeq(list', 1, Len(list)) = list
          /\ \A j \in 1..Len(Called) : list'[Len(list) + j] = render(chats'[Called[j]])]_vars

\* two entries delivered by two snapshots, the later-created message first:
\* the list keeps delivery order
C17_Witness ==
    /\ Len(list) = 2
    /\ list[1] # list[2]
    /\ chats[rendered[1]].created_at > chats[rendered[2]].created_at

\* C18: clear() empties the list whatever it held, and clearing twice gives
\* the same as clearing once.
C18_ClearIdempotent ==
    /\ clear(list) = <<>>
    /\ clear(clear(list)) = clear(list)

\* a list cleared by a switch and filled again with two entries, to which
\* clear is applied
C18_Witness ==
    /\ Len(listeners) = 2
    /\ Len(list) = 2
    /\ clear(list) # list

\* document k is stored (its write acknowledged) in the given room
Stored(k, room) ==
    k <= Len(chats) /\ chats[k].status = "committed" /\ chats[k].room = room

\* the guard of Deliver is its enabling condition
DeliverEnabledIsEnabled == DeliverEnabled <=> ENABLED <<Deliver>>_vars

\* C19: while the user stays in a room, every message stored in that room,
\* whether it was there before the listener was opened or came later, from
\* this page or another client, is eventually in the rendered list, provided
\* the store delivers the snapshots it owes.
C19_EventuallyRendered ==
    \A k \in 1..MaxChats :
        Stored(k, chatroom.room) ~> (k \in Shown \/ ~Stored(k, chatroom.room))

\* in gaming after a switch: a message of another client and a message of
\* this page, both stored in gaming, are both rendered
C19_Witness ==
    /\ Len(listeners) = 2
    /\ chatroom.room = "gaming"
    /\ \E k1, k2 \in Shown :
         /\ Stored(k1, "gaming") /\ chats[k1].origin = "remote"
         /\ Stored(k2, "gaming") /\ chats[k2].origin = "local"

\* the update message reads "Name has been updated to ..."
ConfirmationShown(nodes) ==
    /\ nodes # <<>>
    /\ nodes[1].tagName = "#text"
    /\ Len(nodes[1].data) >= Len(NamePrefix)
    /\ SubSeq(nodes[1].data, 1, Len(NamePrefix)) = NamePrefix

\* C20: every submit of the name form shows the confirmation text, and unless
\* the name form is submitted again and again for ever, the confirmation is
\* in the end cleared and stays cleared (timers fire).
C20_ConfirmationShownThenCleared ==
    /\ [][NameSubmit => ConfirmationShown(updateMsg')]_vars
    /\ ([]<><<NameSubmit>>_vars \/ <>[](updateMsg = <<>>))

\* a name was submitted, its confirmation was shown and has been cleared by
\* the timer
C20_Witness ==
    /\ lastChange # Absent
    /\ timers = 0
    /\ updateMsg = <<>>

\* the fields of a chat document that the client wrote
Fields(d) == <<d.message, d.username, d.room, d.created_at>>

\* C21: the client never updates or deletes a stored message: no step removes
\* a document from the collection, a stored (acknowledged) document stays
\* stored, and its message, username, room and creation time never change.
C21_StoredImmutable ==
    [][/\ Len(chats') >= Len(chats)
       /\ \A k \in 1..Len(chats) :
            chats[k].status = "committed"
                => /\ chats'[k].status = "committed"
                   /\ Fields(chats'[k]) = Fields(chats[k])]_vars

\* two messages stored by this page, the name changed and the room switched
\* after the first: the first still carries the old name and room
C21_Witness ==
    /\ Len(chats) = 2
    /\ chats[1].status = "committed" /\ chats[1].origin = "local"
    /\ chats[2].status = "committed" /\ chats[2].origin = "local"
    /\ chats[1].username # chatroom.username
    /\ chats[1].room # chatroom.room
    /\ chats[2].username = chatroom.username

\* C22: with the Chatroom methods called directly in any order, at most one
\* listener is live at a time.
C22_OneHandleDirect == Cardinality(Active) <= 1

\* C23: through the controller every entry of the rendered list shows a
\* message of the room the session is in: a switch leaves no entry of the
\* room viewed before.
C23_ListIsCurrentRoom ==
    \A j \in 1..Len(rendered) : chats[rendered[j]].room = chatroom.room

\* after a switch the user is in gaming: the list shows one message, of
\* gaming, though a message of general is stored too
C23_Witness ==
    /\ Len(listeners) >= 2
    /\ chatroom.room = "gaming"
    /\ Len(rendered) = 1
    /\ \E k \in 1..Len(chats) : chats[k].room = "general" /\ Visible(chats[k])

\* C24: the rendered list is in non-decreasing creation-time order.
C24_TimeOrdered ==
    \A j1, j2 \in 1..Len(rendered) :
        j1 < j2 => chats[rendered[j1]].created_at <= chats[rendered[j2]].created_at

\* C25: every entry of the rendered list shows a message that is stored: a
\* message whose write is still in flight or was refused is not in the list.
C25_OnlyStoredRendered ==
    \A j \in 1..Len(rendered) : chats[rendered[j]].status = "committed"

\* C26: no message is in the rendered list twice, whatever rooms were
\* clicked, the current one included.
C26_NoDuplicates ==
    \A j1, j2 \in 1..Len(rendered) : rendered[j1] = rendered[j2] => j1 = j2

\* the button of the room being viewed was clicked twice (three listeners, all
\* on general) and both stored messages are shown once each
C26_Witness ==
    /\ Len(listeners) = 3
    /\ \A i \in 1..3 : listeners[i].room = "general"
    /\ Len(rendered) = 2
    /\ Shown = {1, 2}

\* C27: the record of a post is fixed by the submit: while its write is in
\* flight, and when the write is acknowledged, no step changes its username,
\* room, message or creation time, whatever name change or room switch is
\* handled meanwhile.
C27_InFlightFixed ==
    [][\A k \in Pending : Fields(chats'[k]) = Fields(chats[k])]_vars

\* a write still in flight after the user has changed name and switched
\* room: the document carries the name and room of the submit
C27_Witness ==
    \E k \in Pending :
        /\ chats[k].username # chatroom.username
        /\ chats[k].room # chatroom.room
        /\ lastChange = Some(chatroom.username)

\* C28: the reset after an acknowledged write clears only the submitted text:
\* when the field holds other text than the message of the acknowledged
\* write (typed after the submit), the step leaves the field as it is.
C28_ResetKeepsLaterText ==
    [][\A k \in Local :
          (chats[k].status = "pending" /\ chats'[k].status = "committed"
           /\ Trim(msgInput) # chats[k].message)
              => msgInput' = msgInput]_vars

\* C29: the confirmation of a name change stays until the timer of that
\* change fires: as long as a timer is pending (the newest change's timer is
\* the last to fire), the confirmation is shown.
C29_ConfirmationOutlivesOlderTimers == timers > 0 => updateMsg # <<>>

\* C30: the name echoed in the update confirmation is inserted as text: the
\* confirmation holds text nodes only, and its text ends with the name as
\* the user gave it (trimmed).
C30_ConfirmationIsText ==
    updateMsg # <<>>
        => /\ \A j \in 1..Len(updateMsg) : updateMsg[j].tagName = "#text"
           /\ lastChange # Absent
           /\ TextOfNodes(updateMsg) = NamePrefix \o lastChange[1]

\* C31: from startup through clicks on the page's room buttons, the session's
\* room, and the room of every listener it opened, is one of general, gaming,
\* music, coding.
C31_RoomInFixedSet ==
    /\ chatroom.room \in Rooms
    /\ \A i \in 1..Len(listeners) : listeners[i].room \in Rooms

\* general at startup, then the music button, then the coding button
C31_Witness ==
    /\ Len(listeners) = 3
    /\ listeners[1].room = "general"
    /\ listeners[2].room = "music"
    /\ chatroom.room = "coding"
    /\ Active = {3}

\* C32: a click inside the room container on something that is not a button
\* changes nothing: the rendered list, the session (room, username, handle)
\* and every listener are as they were.
C32_NonButtonClickNoOp ==
    [][\A target \in Targets :
          (target.tagName # "BUTTON" /\ RoomClick(target))
              => /\ list' = list
                 /\ rendered' = rendered
                 /\ chatroom' = chatroom
                 /\ listeners' = listeners]_vars

\* a state with something to lose, in which the container can be clicked: the
\* user is in gaming, a message is shown, the listener is open
C32_Witness ==
    /\ chatroom.room = "gaming"
    /\ list # <<>>
    /\ Active = {chatroom.unsub}
    /\ Len(listeners) < MaxSubs
    /\ ENABLED RoomClick(Container)

\* C33: with the Chatroom methods called directly in any order, the
\* unsubscribe function of each listener is called at most once.
C33_CancelAtMostOnce ==
    \A i \in 1..Len(listeners) : listeners[i].unsubCalls <= 1

====
